---- MODULE Spec2Model ----
(***************************************************************************)
(* PyWebIO input module (pywebio/input.py): field constructors, the        *)
(* input_group aggregator and the submission protocol of input_control.    *)
(*                                                                         *)
(* Python values are encoded as follows.  A dict is a function from key    *)
(* strings to values.  None, True and False are the strings "None",        *)
(* "True", "False".  A raw submitted string is a sequence of one-character *)
(* strings.  A typed value is [t |-> "str", s |-> raw] or                  *)
(* [t |-> "int", n |-> integer].  An insertion-ordered dict whose order    *)
(* matters (preprocess_funcs, item_valid_funcs) is a sequence of           *)
(* [k |-> key, v |-> value] entries.                                       *)
(***************************************************************************)
EXTENDS Integers, Sequences, FiniteSets, TLC

VARIABLES call, phase, built, form, first_form, pending, submitted, calls,
          result, resumes, suspended, fatal, op

vars == <<call, phase, built, form, first_form, pending, submitted, calls,
          result, resumes, suspended, fatal, op>>

----------------------------------------------------------------------------
(* Constants of input.py *)

TEXT == "text"
NUMBER == "number"
PASSWORD == "password"
CHECKBOX == "checkbox"
RADIO == "radio"
SELECT == "select"
TEXTAREA == "textarea"
ActionsType == "actions"
FileType == "file"

None == "None"
True == "True"
False == "False"

(* The exception an assert statement raises; the specification calls it
   SpecificationError. *)
SpecificationError == "SpecificationError"
StaleSubmissionError == "StaleSubmissionError"
NoError == "none"

----------------------------------------------------------------------------
(* Python dict operations *)

EmptyDict == [k \in {} |-> None]

DictUpdate(d, e) ==
    [k \in DOMAIN d \cup DOMAIN e |-> IF k \in DOMAIN e THEN e[k] ELSE d[k]]

DictPop(d, key) == [k \in DOMAIN d \ {key} |-> d[k]]

DictSet(d, key, val) == DictUpdate(d, [k \in {key} |-> val])

DictGet(d, key, default) == IF key \in DOMAIN d THEN d[key] ELSE default

(* Insertion-ordered dict: d[key] = val keeps the position of an existing
   key and appends a new one. *)
OrderedKeys(od) == [i \in 1..Len(od) |-> od[i].k]

OrderedHas(od, key) == \E i \in 1..Len(od) : od[i].k = key

OrderedGet(od, key) ==
    LET i == CHOOSE j \in 1..Len(od) : od[j].k = key IN od[i].v

OrderedSet(od, key, val) ==
    IF OrderedHas(od, key)
    THEN [i \in 1..Len(od) |->
             IF od[i].k = key THEN [k |-> key, v |-> val] ELSE od[i]]
    ELSE Append(od, [k |-> key, v |-> val])

----------------------------------------------------------------------------
(* Field constructors *)

(* lambda _: None, the default validator of _parse_args *)
always_valid == "always_valid"

(* Variant of _parse_args that merges the extra attributes first, so that a
   named parameter wins over an extra attribute of the same key. *)
parse_args_named_last(kwargs, other_html_attrs) ==
    LET kept == [k \in {j \in DOMAIN kwargs : kwargs[j] # None} |-> kwargs[k]]
        merged == DictPop(DictUpdate(other_html_attrs, kept), "other_html_attrs")
    IN  [item_spec |-> DictPop(merged, "valid_func"),
         valid_func |-> DictGet(merged, "valid_func", always_valid)]

(* _parse_args: kwargs is the constructor's locals() without the
   other_html_attrs entry, which is passed separately.  The entries that are
   None are dropped, the extra attributes are merged over the rest, and the
   keys other_html_attrs and valid_func are popped. *)
parse_args(kwargs, other_html_attrs) ==
    LET kept == [k \in {j \in DOMAIN kwargs : kwargs[j] # None} |-> kwargs[k]]
        merged == DictPop(DictUpdate(kept, other_html_attrs), "other_html_attrs")
    IN  [item_spec |-> DictPop(merged, "valid_func"),
         valid_func |-> DictGet(merged, "valid_func", always_valid)]

allowed_type == {TEXT, NUMBER, PASSWORD, TEXTAREA}

(* Variant of preprocess_func without the number branch. *)
input_preprocess_func_identity(type) == "identity"

(* The closure preprocess_func of input(): int(d) for a number field. *)
input_preprocess_func(type) == IF type = NUMBER THEN "int" ELSE "identity"

(* Variant of input() without the assert on type. *)
input_no_kind_check(label, type, valid_func, name, required, other_html_attrs) ==
    LET p == parse_args([label |-> label, type |-> type,
                         valid_func |-> valid_func, name |-> name,
                         required |-> required], other_html_attrs)
    IN  [raised |-> NoError, item_spec |-> p.item_spec,
         valid_func |-> p.valid_func,
         preprocess_func |-> input_preprocess_func(type)]

(* Variant of input() that hands single_input the default validator instead
   of the caller's. *)
input_default_validator(label, type, valid_func, name, required, other_html_attrs) ==
    LET p == parse_args([label |-> label, type |-> type,
                         valid_func |-> valid_func, name |-> name,
                         required |-> required], other_html_attrs)
    IN  IF type \notin allowed_type
        THEN [raised |-> SpecificationError]
        ELSE [raised |-> NoError, item_spec |-> p.item_spec,
              valid_func |-> always_valid,
              preprocess_func |-> input_preprocess_func(type)]

(* input(label, type, valid_func=, name=, required=, **other_html_attrs).
   A failed assert yields the AssertionError instead of a unit. *)
input(label, type, valid_func, name, required, other_html_attrs) ==
    LET p == parse_args([label |-> label, type |-> type,
                         valid_func |-> valid_func, name |-> name,
                         required |-> required], other_html_attrs)
    IN  IF type \notin allowed_type
        THEN [raised |-> SpecificationError]
        ELSE [raised |-> NoError, item_spec |-> p.item_spec,
              valid_func |-> p.valid_func,
              preprocess_func |-> input_preprocess_func(type)]

textarea(label, valid_func, name, required, other_html_attrs) ==
    LET p == parse_args([label |-> label, rows |-> "6",
                         valid_func |-> valid_func, name |-> name,
                         required |-> required], other_html_attrs)
    IN  [raised |-> NoError,
         item_spec |-> DictSet(p.item_spec, "type", TEXTAREA),
         valid_func |-> p.valid_func, preprocess_func |-> "identity"]

(* The four keys a positional option declaration is zipped with, and the
   three of a positional button declaration. *)
option_keys == <<"value", "label", "selected", "disabled">>

button_keys == <<"value", "label", "disabled">>

(* dict(zip(keys, l)) *)
DictZip(keys, l) ==
    LET n == IF Len(l) < Len(keys) THEN Len(l) ELSE Len(keys)
    IN  [k \in {keys[i] : i \in 1..n} |->
            l[CHOOSE i \in 1..n : keys[i] = k]]

(* The object an option declaration that is neither a Mapping nor a list
   stands for: the value of a scalar, the tuple itself for a tuple. *)
ScalarObject(opt) == IF opt.shape = "scalar" THEN opt.v ELSE opt

(* Variant of _parse_select_options without the Mapping branch: a mapping
   is wrapped like a scalar. *)
RECURSIVE parse_select_options_wraps_mappings(_)
parse_select_options_wraps_mappings(options) ==
    IF options = <<>> THEN [raised |-> NoError, opts |-> <<>>]
    ELSE LET opt == Head(options)
             rest == parse_select_options_wraps_mappings(Tail(options))
             one ==
               IF opt.shape = "list"
               THEN IF Len(opt.l) > 1 /\ Len(opt.l) <= 4
                    THEN [raised |-> NoError, o |-> DictZip(option_keys, opt.l)]
                    ELSE [raised |-> SpecificationError]
               ELSE [raised |-> NoError,
                     o |-> [value |-> opt, label |-> opt]]
         IN  IF one.raised # NoError THEN [raised |-> one.raised]
             ELSE IF rest.raised # NoError THEN [raised |-> rest.raised]
             ELSE [raised |-> NoError, opts |-> <<one.o>> \o rest.opts]

(* _parse_select_options on a list of option declarations.  A declaration
   is [shape |-> "mapping", m |-> dict], [shape |-> "list", l |-> sequence],
   [shape |-> "tuple", l |-> sequence] or [shape |-> "scalar", v |-> value].
   isinstance(opt, list) is False for a tuple, which takes the last
   branch. *)
RECURSIVE parse_select_options(_)
parse_select_options(options) ==
    IF options = <<>> THEN [raised |-> NoError, opts |-> <<>>]
    ELSE LET opt == Head(options)
             rest == parse_select_options(Tail(options))
             one ==
               IF opt.shape = "mapping"
               THEN IF {"value", "label"} \subseteq DOMAIN opt.m
                    THEN [raised |-> NoError, o |-> opt.m]
                    ELSE [raised |-> SpecificationError]
               ELSE IF opt.shape = "list"
               THEN IF Len(opt.l) > 1 /\ Len(opt.l) <= 4
                    THEN [raised |-> NoError, o |-> DictZip(option_keys, opt.l)]
                    ELSE [raised |-> SpecificationError]
               ELSE [raised |-> NoError,
                     o |-> [value |-> ScalarObject(opt),
                            label |-> ScalarObject(opt)]]
         IN  IF one.raised # NoError THEN [raised |-> one.raised]
             ELSE IF rest.raised # NoError THEN [raised |-> rest.raised]
             ELSE [raised |-> NoError, opts |-> <<one.o>> \o rest.opts]

(* _parse_action_buttons: as _parse_select_options, with a positional
   declaration of two or three elements. *)
RECURSIVE parse_action_buttons(_)
parse_action_buttons(buttons) ==
    IF buttons = <<>> THEN [raised |-> NoError, opts |-> <<>>]
    ELSE LET act == Head(buttons)
             rest == parse_action_buttons(Tail(buttons))
             one ==
               IF act.shape = "mapping"
               THEN IF {"value", "label"} \subseteq DOMAIN act.m
                    THEN [raised |-> NoError, o |-> act.m]
                    ELSE [raised |-> SpecificationError]
               ELSE IF act.shape = "list"
               THEN IF Len(act.l) \in {2, 3}
                    THEN [raised |-> NoError, o |-> DictZip(button_keys, act.l)]
                    ELSE [raised |-> SpecificationError]
               ELSE [raised |-> NoError,
                     o |-> [value |-> ScalarObject(act),
                            label |-> ScalarObject(act)]]
         IN  IF one.raised # NoError THEN [raised |-> one.raised]
             ELSE IF rest.raised # NoError THEN [raised |-> rest.raised]
             ELSE [raised |-> NoError, opts |-> <<one.o>> \o rest.opts]

(* select, checkbox and radio differ only in the type they set. *)
choice_input(kind, label, options, valid_func, name, required, other_html_attrs) ==
    LET p == parse_args([label |-> label, valid_func |-> valid_func,
                         name |-> name, required |-> required],
                        other_html_attrs)
        o == parse_select_options(options)
    IN  IF o.raised # NoError THEN [raised |-> o.raised]
        ELSE [raised |-> NoError,
              item_spec |-> DictSet(DictSet(p.item_spec, "options", o.opts),
                                    "type", kind),
              valid_func |-> p.valid_func, preprocess_func |-> "identity"]

select(label, options, valid_func, name, required, other_html_attrs) ==
    choice_input(SELECT, label, options, valid_func, name, required, other_html_attrs)

checkbox(label, options, valid_func, name, required, other_html_attrs) ==
    choice_input(CHECKBOX, label, options, valid_func, name, required, other_html_attrs)

radio(label, options, valid_func, name, required, other_html_attrs) ==
    choice_input(RADIO, label, options, valid_func, name, required, other_html_attrs)

(* actions(label, buttons, name=, help_text=): no extra attributes, the
   default validator, the identity transform. *)
actions(label, buttons, name, help_text) ==
    LET p == parse_args([label |-> label, name |-> name,
                         help_text |-> help_text], EmptyDict)
        b == parse_action_buttons(buttons)
    IN  IF b.raised # NoError THEN [raised |-> b.raised]
        ELSE [raised |-> NoError,
              item_spec |-> DictSet(DictSet(p.item_spec, "type", ActionsType),
                                    "buttons", b.opts),
              valid_func |-> p.valid_func, preprocess_func |-> "identity"]

(* file_upload(label, name=, **other_html_attrs): the transform is read_file.
   valid_func and required can only arrive through other_html_attrs. *)
file_upload(label, name, other_html_attrs) ==
    LET p == parse_args([label |-> label, name |-> name,
                         placeholder |-> "Choose file"], other_html_attrs)
    IN  [raised |-> NoError,
         item_spec |-> DictSet(p.item_spec, "type", FileType),
         valid_func |-> p.valid_func, preprocess_func |-> "read_file"]

----------------------------------------------------------------------------
(* input_group *)

(* Variant of the loop that stores the default validator for every name. *)
RECURSIVE extract_inputs_no_validators(_, _)
extract_inputs_no_validators(inputs, acc) ==
    IF inputs = <<>> THEN acc
    ELSE LET input_kwargs == Head(inputs)
             input_name == input_kwargs.item_spec["name"]
         IN  extract_inputs_no_validators(Tail(inputs),
               [spec_inputs |-> Append(acc.spec_inputs, input_kwargs.item_spec),
                preprocess_funcs |->
                    OrderedSet(acc.preprocess_funcs, input_name,
                               input_kwargs.preprocess_func),
                item_valid_funcs |->
                    OrderedSet(acc.item_valid_funcs, input_name, always_valid)])

(* Variant of the loop that stores the identity transform for every name. *)
RECURSIVE extract_inputs_no_preprocess(_, _)
extract_inputs_no_preprocess(inputs, acc) ==
    IF inputs = <<>> THEN acc
    ELSE LET input_kwargs == Head(inputs)
             input_name == input_kwargs.item_spec["name"]
         IN  extract_inputs_no_preprocess(Tail(inputs),
               [spec_inputs |-> Append(acc.spec_inputs, input_kwargs.item_spec),
                preprocess_funcs |->
                    OrderedSet(acc.preprocess_funcs, input_name, "identity"),
                item_valid_funcs |->
                    OrderedSet(acc.item_valid_funcs, input_name,
                               input_kwargs.valid_func)])

(* Variant of the loop that fills the two dicts from the last unit to the
   first. *)
RECURSIVE extract_inputs_reversed(_, _)
extract_inputs_reversed(inputs, acc) ==
    IF inputs = <<>> THEN acc
    ELSE LET input_kwargs == Head(inputs)
             input_name == input_kwargs.item_spec["name"]
             rest == extract_inputs_reversed(Tail(inputs),
                       [acc EXCEPT !.spec_inputs =
                                       Append(@, input_kwargs.item_spec)])
         IN  [rest EXCEPT
                !.preprocess_funcs =
                    IF OrderedHas(@, input_name) THEN @
                    ELSE Append(@, [k |-> input_name,
                                    v |-> input_kwargs.preprocess_func]),
                !.item_valid_funcs =
                    IF OrderedHas(@, input_name) THEN @
                    ELSE Append(@, [k |-> input_name,
                                    v |-> input_kwargs.valid_func])]

(* The loop over inputs: each unit's item_spec is appended to spec_inputs and
   its transform and validator are stored under the unit's name. *)
RECURSIVE extract_inputs(_, _)
extract_inputs(inputs, acc) ==
    IF inputs = <<>> THEN acc
    ELSE LET input_kwargs == Head(inputs)
             input_name == input_kwargs.item_spec["name"]
         IN  extract_inputs(Tail(inputs),
               [spec_inputs |-> Append(acc.spec_inputs, input_kwargs.item_spec),
                preprocess_funcs |->
                    OrderedSet(acc.preprocess_funcs, input_name,
                               input_kwargs.preprocess_func),
                item_valid_funcs |->
                    OrderedSet(acc.item_valid_funcs, input_name,
                               input_kwargs.valid_func)])

text_inputs == {TEXT, NUMBER, PASSWORD, SELECT}

(* Variant of the auto-focus default without the break: every text-like
   field is flagged. *)
add_autofocus_no_break(spec_inputs) ==
    IF \A i \in 1..Len(spec_inputs) : "auto_focus" \notin DOMAIN spec_inputs[i]
    THEN [i \in 1..Len(spec_inputs) |->
            IF DictGet(spec_inputs[i], "type", None) \in text_inputs
            THEN DictSet(spec_inputs[i], "auto_focus", True)
            ELSE spec_inputs[i]]
    ELSE spec_inputs

(* The auto-focus default: only when no item_spec has the key auto_focus. *)
add_autofocus(spec_inputs) ==
    IF \A i \in 1..Len(spec_inputs) : "auto_focus" \notin DOMAIN spec_inputs[i]
    THEN LET hits == {i \in 1..Len(spec_inputs) :
                        DictGet(spec_inputs[i], "type", None) \in text_inputs}
         IN  IF hits = {} THEN spec_inputs
             ELSE LET first == CHOOSE i \in hits : \A j \in hits : i <= j
                  IN  [spec_inputs EXCEPT ![first] = DictSet(@, "auto_focus", True)]
    ELSE spec_inputs

(* Variant of input_group that does not pass valid_func on. *)
input_group_no_form_validator(label, inputs, valid_func) ==
    LET e == extract_inputs(inputs, [spec_inputs |-> <<>>,
                                     preprocess_funcs |-> <<>>,
                                     item_valid_funcs |-> <<>>])
    IN  [raised |-> NoError,
         spec |-> [label |-> label, inputs |-> add_autofocus(e.spec_inputs)],
         preprocess_funcs |-> e.preprocess_funcs,
         item_valid_funcs |-> e.item_valid_funcs,
         form_valid_funcs |-> None]

(* input_group(label, inputs, valid_func): the arguments it hands to
   input_control. *)
input_group(label, inputs, valid_func) ==
    LET e == extract_inputs(inputs, [spec_inputs |-> <<>>,
                                     preprocess_funcs |-> <<>>,
                                     item_valid_funcs |-> <<>>])
    IN  [raised |-> NoError,
         spec |-> [label |-> label, inputs |-> add_autofocus(e.spec_inputs)],
         preprocess_funcs |-> e.preprocess_funcs,
         item_valid_funcs |-> e.item_valid_funcs,
         form_valid_funcs |-> valid_func]

----------------------------------------------------------------------------
(* Transforms and validators *)

Digits == {"0", "1", "2", "3", "4", "5", "6", "7", "8", "9"}

DigitValue(c) ==
    CASE c = "0" -> 0 [] c = "1" -> 1 [] c = "2" -> 2 [] c = "3" -> 3
      [] c = "4" -> 4 [] c = "5" -> 5 [] c = "6" -> 6 [] c = "7" -> 7
      [] c = "8" -> 8 [] c = "9" -> 9

RECURSIVE DecimalValue(_)
DecimalValue(d) ==
    IF d = <<>> THEN 0
    ELSE 10 * DecimalValue(SubSeq(d, 1, Len(d) - 1)) + DigitValue(d[Len(d)])

(* Variant of int(d) that reads a string that is no number as 0. *)
int_lenient(d) ==
    IF Len(d) > 0 /\ \A i \in 1..Len(d) : d[i] \in Digits
    THEN [raised |-> NoError, v |-> [t |-> "int", n |-> DecimalValue(d)]]
    ELSE [raised |-> NoError, v |-> [t |-> "int", n |-> 0]]

(* int(d) on a string: the integer, or ValueError. *)
int(d) ==
    IF Len(d) > 0 /\ \A i \in 1..Len(d) : d[i] \in Digits
    THEN [raised |-> NoError, v |-> [t |-> "int", n |-> DecimalValue(d)]]
    ELSE [raised |-> "ValueError"]

(* The base64 alphabet, and the six bits a character of it stands for. *)
B64Alphabet ==
    <<"A", "B", "C", "D", "E", "F", "G", "H", "I", "J", "K", "L", "M",
      "N", "O", "P", "Q", "R", "S", "T", "U", "V", "W", "X", "Y", "Z",
      "a", "b", "c", "d", "e", "f", "g", "h", "i", "j", "k", "l", "m",
      "n", "o", "p", "q", "r", "s", "t", "u", "v", "w", "x", "y", "z",
      "0", "1", "2", "3", "4", "5", "6", "7", "8", "9", "+", "/">>

B64Chars == {B64Alphabet[i] : i \in 1..Len(B64Alphabet)}

B64Index(c) == (CHOOSE i \in 1..Len(B64Alphabet) : B64Alphabet[i] = c) - 1

InB64(c) == c \in B64Chars

IsPad(c) == c = "="

(* The six bits of the i-th character of d, 0 past its end. *)
B64Value(d, i) == IF i <= Len(d) THEN B64Index(d[i]) ELSE 0

(* The three bytes of 24 bits. *)
B64Three(n) == <<n \div 65536, (n \div 256) % 256, n % 256>>

(* The three bytes the first four characters of d stand for. *)
B64Group(d) ==
    B64Three(B64Value(d, 1) * 262144 + B64Value(d, 2) * 4096
                 + B64Value(d, 3) * 64 + B64Value(d, 4))

(* The bytes of a run of base64 characters, four characters to three
   bytes; a last group of two or three characters gives one or two bytes. *)
RECURSIVE B64Bytes(_)
B64Bytes(d) ==
    IF Len(d) < 2 THEN <<>>
    ELSE IF Len(d) >= 4 THEN B64Group(d) \o B64Bytes(SubSeq(d, 5, Len(d)))
    ELSE SubSeq(B64Group(d), 1, Len(d) - 1)

(* A run of d characters of the alphabet with pads padding characters
   decodes unless its last group is one character long or lacks padding. *)
B64Decode(d, pads, q) ==
    IF q = 1 \/ (q = 2 /\ pads < 2) \/ (q = 3 /\ pads < 1)
    THEN [raised |-> "binascii.Error"]
    ELSE [raised |-> NoError, v |-> B64Bytes(d)]

B64Data(encoded) == SelectSeq(encoded, InB64)

(* b64decode(encoded) on characters of the alphabet followed by padding:
   characters outside the alphabet are discarded, and a last group that is
   one character long or lacks its padding raises binascii.Error. *)
b64decode(encoded) ==
    B64Decode(B64Data(encoded), Len(SelectSeq(encoded, IsPad)),
              Len(B64Data(encoded)) % 4)

(* The places of the commas of a string, and the first of them. *)
Commas(url) == {i \in 1..Len(url) : url[i] = ","}

FirstComma(url) == CHOOSE i \in Commas(url) : \A j \in Commas(url) : i <= j

(* data with data['content'] set to the decoded bytes, or the error of the
   decoding. *)
WithContent(data, content) ==
    IF content.raised # NoError THEN [raised |-> content.raised]
    ELSE [raised |-> NoError,
          v |-> [t |-> "file", filename |-> data.filename,
                 dataurl |-> data.dataurl, content |-> content.v]]

(* read_file(data): data['dataurl'].split(",", 1) is unpacked into two
   names, which raises ValueError without a comma; the part after the first
   comma is decoded into data['content']. *)
read_file(data) ==
    IF Commas(data.dataurl) = {} THEN [raised |-> "ValueError"]
    ELSE WithContent(data,
             b64decode(SubSeq(data.dataurl, FirstComma(data.dataurl) + 1,
                              Len(data.dataurl))))

(* A transform applied to a raw value. *)
ApplyPreprocess(preprocess_func, d) ==
    IF preprocess_func = "int" THEN int(d)
    ELSE IF preprocess_func = "read_file" THEN read_file(d)
    ELSE [raised |-> NoError, v |-> [t |-> "str", s |-> d]]

(* Validators an application passes as valid_func: None (valid) or a message.
   short rejects a string of more than two characters and an integer of more
   than two digits. *)
short == "short"

TooLong(v) ==
    IF v.t = "int" THEN v.n > 99
    ELSE IF v.t = "file" THEN Len(v.content) > 2
    ELSE Len(v.s) > 2

ApplyValidFunc(valid_func, v) ==
    IF valid_func = short /\ TooLong(v) THEN "too long" ELSE None

(* A form validator in the shape of the docstring's check_form: it names
   field a when the value of a is too long. *)
check_form == "check_form"

(* A form validator that reports the same finding under the name "form",
   which is the name of no field. *)
check_whole == "check_whole"

ApplyFormValidFunc(valid_func, data) ==
    IF valid_func = check_form /\ "a" \in DOMAIN data /\ TooLong(data["a"])
    THEN [name |-> "a", msg |-> "too long"]
    ELSE IF valid_func = check_whole /\ "a" \in DOMAIN data /\ TooLong(data["a"])
    THEN [name |-> "form", msg |-> "too long"]
    ELSE [name |-> None, msg |-> None]

----------------------------------------------------------------------------
(* input_control: the submission protocol of a pending request *)

NoAnnotation == [name |-> None, msg |-> None]

(* One field of a submission: required check, transform, validator. *)
CheckField(b, name, sub) ==
    LET required == \E i \in 1..Len(b.spec.inputs) :
                       /\ b.spec.inputs[i]["name"] = name
                       /\ DictGet(b.spec.inputs[i], "required", None) = True
    IN  IF name \notin DOMAIN sub
        THEN IF required THEN [status |-> "failed", msg |-> "required"]
             ELSE [status |-> "skipped"]
        ELSE LET t == ApplyPreprocess(OrderedGet(b.preprocess_funcs, name),
                                      sub[name])
             IN  IF t.raised # NoError
                 THEN [status |-> "failed", msg |-> t.raised]
                 ELSE LET m == ApplyValidFunc(
                                   OrderedGet(b.item_valid_funcs, name), t.v)
                      IN  IF m # None THEN [status |-> "failed", msg |-> m]
                          ELSE [status |-> "passed", v |-> t.v]

(* The names whose checks run, in the order they run. *)
FieldOrder(b) == OrderedKeys(b.item_valid_funcs)

(* Variant of the annotation of a field check that names the field by its
   label. *)
FieldError_by_label(b, name, msg) ==
    LET i == CHOOSE j \in 1..Len(b.spec.inputs) : b.spec.inputs[j]["name"] = name
    IN  [name |-> b.spec.inputs[i]["label"], msg |-> msg]

(* The annotation of a failed field check: the name of the field and the
   message. *)
FieldError(b, name, msg) == [name |-> name, msg |-> msg]

(* The whole pipeline on one submission: every field check in order, then
   the form validator when no field check failed. *)
RunPipeline(b, sub) ==
    LET names == FieldOrder(b)
        checks == [i \in 1..Len(names) |-> CheckField(b, names[i], sub)]
        failing == {i \in 1..Len(names) : checks[i].status = "failed"}
        fieldlog == [i \in 1..Len(names) |->
                       [kind |-> "field", name |-> names[i],
                        status |-> checks[i].status]]
        passed == {i \in 1..Len(names) : checks[i].status = "passed"}
        data == [n \in {names[i] : i \in passed} |->
                   checks[CHOOSE i \in passed : names[i] = n].v]
        verdict == ApplyFormValidFunc(b.form_valid_funcs, data)
        formlog == IF b.form_valid_funcs = None THEN <<>>
                   ELSE <<[kind |-> "form", name |-> verdict.name,
                           status |-> IF verdict = NoAnnotation
                                      THEN "passed" ELSE "failed"]>>
    IN  IF failing # {}
        THEN LET i == CHOOSE j \in failing : \A k \in failing : j <= k
             IN  [outcome |-> "rejected", log |-> fieldlog,
                  error |-> FieldError(b, names[i], checks[i].msg)]
        ELSE IF b.form_valid_funcs # None /\ verdict # NoAnnotation
        THEN [outcome |-> "rejected", log |-> fieldlog \o formlog,
              error |-> verdict]
        ELSE [outcome |-> "resolved", log |-> fieldlog \o formlog,
              data |-> data]

(* Variants of the staleness check: one accepts a submission that answers
   an earlier form, one accepts a submission for a resolved request. *)
IsCurrent_ignores_fresh(at, fresh) == at = "AWAITING_SUBMISSION"

IsCurrent_after_resolved(at, fresh) ==
    fresh /\ at \in {"AWAITING_SUBMISSION", "RESOLVED"}

(* A delivery is accepted only for the request's current form. *)
IsCurrent(at, fresh) == at = "AWAITING_SUBMISSION" /\ fresh

----------------------------------------------------------------------------
(* State *)

Reqs == {"r1", "r2"}

NoBuilt == [raised |-> None]
NoForm == [emitted |-> FALSE]
NoPending == [rejected |-> FALSE]
NoSubmission == [delivered |-> FALSE]
NoResult == [resolved |-> FALSE]
NoOp == [name |-> "none", fresh |-> TRUE, at |-> "NONE"]
NoCall == [label |-> None, inputs |-> <<>>, valid_func |-> None]

Upd(f, r, v) == [f EXCEPT ![r] = v]

(* Variant of input_group that keeps preprocess_funcs and item_valid_funcs
   at module level: every group built so far reads the dicts of the last
   call. *)
InputGroup_shared_registry(r) ==
    LET b == input_group(call[r].label, call[r].inputs, call[r].valid_func)
    IN  /\ phase[r] = "NONE"
        /\ built' = [q \in Reqs |->
                        IF q = r THEN b
                        ELSE IF built[q] = NoBuilt THEN built[q]
                        ELSE [built[q] EXCEPT
                                !.preprocess_funcs = b.preprocess_funcs,
                                !.item_valid_funcs = b.item_valid_funcs]]
        /\ phase' = Upd(phase, r, IF b.raised = NoError THEN "BUILT" ELSE "FAILED")
        /\ fatal' = Upd(fatal, r, b.raised)
        /\ op' = Upd(op, r, [name |-> "input_group", fresh |-> TRUE, at |-> phase[r]])
        /\ UNCHANGED <<call, form, first_form, pending, submitted, calls,
                       result, resumes, suspended>>

(* The caller evaluates input_group(label, inputs, valid_func): the
   coroutine exists and has not started. *)
InputGroup(r) ==
    LET b == input_group(call[r].label, call[r].inputs, call[r].valid_func)
    IN  /\ phase[r] = "NONE"
        /\ built' = Upd(built, r, b)
        /\ phase' = Upd(phase, r, IF b.raised = NoError THEN "BUILT" ELSE "FAILED")
        /\ fatal' = Upd(fatal, r, b.raised)
        /\ op' = Upd(op, r, [name |-> "input_group", fresh |-> TRUE, at |-> phase[r]])
        /\ UNCHANGED <<call, form, first_form, pending, submitted, calls,
                       result, resumes, suspended>>

(* The coroutine is awaited: the form is sent and the computation suspends. *)
Emit(r) ==
    LET f == [emitted |-> TRUE, label |-> built[r].spec.label,
              inputs |-> built[r].spec.inputs, error |-> NoAnnotation,
              values |-> EmptyDict]
    IN  /\ phase[r] = "BUILT"
        /\ form' = Upd(form, r, f)
        /\ first_form' = Upd(first_form, r, f)
        /\ phase' = Upd(phase, r, "AWAITING_SUBMISSION")
        /\ suspended' = Upd(suspended, r, TRUE)
        /\ fatal' = Upd(fatal, r, NoError)
        /\ op' = Upd(op, r, [name |-> "emit", fresh |-> TRUE, at |-> phase[r]])
        /\ UNCHANGED <<call, built, pending, submitted, calls, result, resumes>>

(* The names of the submission whose transform raises. *)
Raising(b, sub) ==
    {n \in DOMAIN sub :
        /\ OrderedHas(b.preprocess_funcs, n)
        /\ ApplyPreprocess(OrderedGet(b.preprocess_funcs, n), sub[n]).raised
               # NoError}

RaisedBy(b, sub, n) ==
    ApplyPreprocess(OrderedGet(b.preprocess_funcs, n), sub[n]).raised

(* Variant of Deliver that does not catch what a transform raises: the
   exception reaches the caller. *)
Deliver_uncaught(r, sub, fresh) ==
    /\ phase[r] \in {"BUILT", "AWAITING_SUBMISSION", "VALIDATING", "RESOLVED"}
    /\ op' = Upd(op, r, [name |-> "deliver", fresh |-> fresh, at |-> phase[r]])
    /\ UNCHANGED <<call, built, form, first_form>>
    /\ IF ~IsCurrent(phase[r], fresh)
       THEN /\ fatal' = Upd(fatal, r, StaleSubmissionError)
            /\ UNCHANGED <<phase, pending, submitted, calls, result, resumes,
                           suspended>>
       ELSE IF Raising(built[r], sub) # {}
       THEN /\ fatal' = Upd(fatal, r,
                            RaisedBy(built[r], sub,
                                     CHOOSE n \in Raising(built[r], sub) : TRUE))
            /\ submitted' = Upd(submitted, r, [delivered |-> TRUE, data |-> sub])
            /\ suspended' = Upd(suspended, r, FALSE)
            /\ phase' = Upd(phase, r, "FAILED")
            /\ UNCHANGED <<pending, calls, result, resumes>>
       ELSE LET p == RunPipeline(built[r], sub)
            IN  /\ fatal' = Upd(fatal, r, NoError)
                /\ submitted' = Upd(submitted, r, [delivered |-> TRUE, data |-> sub])
                /\ calls' = Upd(calls, r, p.log)
                /\ suspended' = Upd(suspended, r, FALSE)
                /\ IF p.outcome = "resolved"
                   THEN /\ phase' = Upd(phase, r, "RESOLVED")
                        /\ result' = Upd(result, r, [resolved |-> TRUE, data |-> p.data])
                        /\ resumes' = Upd(resumes, r, resumes[r] + 1)
                        /\ UNCHANGED pending
                   ELSE /\ phase' = Upd(phase, r, "VALIDATING")
                        /\ pending' = Upd(pending, r, [rejected |-> TRUE,
                                                       error |-> p.error,
                                                       values |-> sub])
                        /\ UNCHANGED <<result, resumes>>

(* The driver delivers the submission sub; fresh says whether it answers the
   most recently emitted form. *)
Deliver(r, sub, fresh) ==
    /\ phase[r] \in {"BUILT", "AWAITING_SUBMISSION", "VALIDATING", "RESOLVED"}
    /\ op' = Upd(op, r, [name |-> "deliver", fresh |-> fresh, at |-> phase[r]])
    /\ UNCHANGED <<call, built, form, first_form>>
    /\ IF ~IsCurrent(phase[r], fresh)
       THEN /\ fatal' = Upd(fatal, r, StaleSubmissionError)
            /\ UNCHANGED <<phase, pending, submitted, calls, result, resumes,
                           suspended>>
       ELSE LET p == RunPipeline(built[r], sub)
            IN  /\ fatal' = Upd(fatal, r, NoError)
                /\ submitted' = Upd(submitted, r, [delivered |-> TRUE, data |-> sub])
                /\ calls' = Upd(calls, r, p.log)
                /\ suspended' = Upd(suspended, r, FALSE)
                /\ IF p.outcome = "resolved"
                   THEN /\ phase' = Upd(phase, r, "RESOLVED")
                        /\ result' = Upd(result, r, [resolved |-> TRUE, data |-> p.data])
                        /\ resumes' = Upd(resumes, r, resumes[r] + 1)
                        /\ UNCHANGED pending
                   ELSE /\ phase' = Upd(phase, r, "VALIDATING")
                        /\ pending' = Upd(pending, r, [rejected |-> TRUE,
                                                       error |-> p.error,
                                                       values |-> sub])
                        /\ UNCHANGED <<result, resumes>>

(* Variant of Redisplay that sends the field specifications again without
   their auto_focus entries. *)
Redisplay_drops_autofocus(r) ==
    /\ phase[r] = "VALIDATING"
    /\ form' = Upd(form, r,
                   [form[r] EXCEPT
                      !.error = pending[r].error,
                      !.values = pending[r].values,
                      !.inputs = [i \in 1..Len(@) |-> DictPop(@[i], "auto_focus")]])
    /\ pending' = Upd(pending, r, NoPending)
    /\ phase' = Upd(phase, r, "AWAITING_SUBMISSION")
    /\ suspended' = Upd(suspended, r, TRUE)
    /\ fatal' = Upd(fatal, r, NoError)
    /\ op' = Upd(op, r, [name |-> "redisplay", fresh |-> TRUE, at |-> phase[r]])
    /\ UNCHANGED <<call, built, first_form, submitted, calls, result, resumes>>

(* A rejected submission: the form is sent again with the error annotation
   and the submitted values, and the computation suspends again. *)
Redisplay(r) ==
    /\ phase[r] = "VALIDATING"
    /\ form' = Upd(form, r, [form[r] EXCEPT !.error = pending[r].error,
                                            !.values = pending[r].values])
    /\ pending' = Upd(pending, r, NoPending)
    /\ phase' = Upd(phase, r, "AWAITING_SUBMISSION")
    /\ suspended' = Upd(suspended, r, TRUE)
    /\ fatal' = Upd(fatal, r, NoError)
    /\ op' = Upd(op, r, [name |-> "redisplay", fresh |-> TRUE, at |-> phase[r]])
    /\ UNCHANGED <<call, built, first_form, submitted, calls, result, resumes>>

(* single_input(item_spec, valid_func, preprocess_func): a form of one
   field, with the field's transform and validator under its name and no
   form validator. *)
single_input(item_spec, valid_func, preprocess_func) ==
    [raised |-> NoError,
     spec |-> [label |-> DictGet(item_spec, "label", None),
               inputs |-> <<item_spec>>],
     preprocess_funcs |-> <<[k |-> item_spec["name"], v |-> preprocess_func]>>,
     item_valid_funcs |-> <<[k |-> item_spec["name"], v |-> valid_func]>>,
     form_valid_funcs |-> None]

(* The constructor call c: the unit it returns, or the error it raises. *)
construct(c) ==
    CASE c.fn = "input" ->
           input(c.label, c.type, c.valid_func, c.name, c.required,
                 c.other_html_attrs)
      [] c.fn = "textarea" ->
           textarea(c.label, c.valid_func, c.name, c.required,
                    c.other_html_attrs)
      [] c.fn = "select" ->
           select(c.label, c.options, c.valid_func, c.name, c.required,
                  c.other_html_attrs)
      [] c.fn = "checkbox" ->
           checkbox(c.label, c.options, c.valid_func, c.name, c.required,
                    c.other_html_attrs)
      [] c.fn = "radio" ->
           radio(c.label, c.options, c.valid_func, c.name, c.required,
                 c.other_html_attrs)
      [] c.fn = "actions" -> actions(c.label, c.options, c.name, None)
      [] c.fn = "file_upload" ->
           file_upload(c.label, c.name, c.other_html_attrs)

(* The caller evaluates a field constructor on its own: the constructor
   checks its arguments and hands the unit to single_input. *)
SingleInput(r) ==
    LET u == construct(call[r])
        b == IF u.raised # NoError THEN [raised |-> u.raised]
             ELSE single_input(u.item_spec, u.valid_func, u.preprocess_func)
    IN  /\ phase[r] = "NONE"
        /\ built' = Upd(built, r, b)
        /\ phase' = Upd(phase, r, IF b.raised = NoError THEN "BUILT" ELSE "FAILED")
        /\ fatal' = Upd(fatal, r, b.raised)
        /\ op' = Upd(op, r, [name |-> "single_input", fresh |-> TRUE, at |-> phase[r]])
        /\ UNCHANGED <<call, form, first_form, pending, submitted, calls,
                       result, resumes, suspended>>

(* The driver delivers the raw value raw to a request of one field: the
   transform, then the validator; the result is the value itself. *)
DeliverSingle(r, raw, fresh) ==
    /\ phase[r] \in {"BUILT", "AWAITING_SUBMISSION", "VALIDATING", "RESOLVED"}
    /\ op' = Upd(op, r, [name |-> "deliver", fresh |-> fresh, at |-> phase[r]])
    /\ UNCHANGED <<call, built, form, first_form>>
    /\ IF ~IsCurrent(phase[r], fresh)
       THEN /\ fatal' = Upd(fatal, r, StaleSubmissionError)
            /\ UNCHANGED <<phase, pending, submitted, calls, result, resumes,
                           suspended>>
       ELSE LET name == built[r].spec.inputs[1]["name"]
                sub == [k \in {name} |-> raw]
                c == CheckField(built[r], name, sub)
            IN  /\ fatal' = Upd(fatal, r, NoError)
                /\ submitted' = Upd(submitted, r, [delivered |-> TRUE, data |-> raw])
                /\ calls' = Upd(calls, r, <<[kind |-> "field", name |-> name,
                                             status |-> c.status]>>)
                /\ suspended' = Upd(suspended, r, FALSE)
                /\ IF c.status = "passed"
                   THEN /\ phase' = Upd(phase, r, "RESOLVED")
                        /\ result' = Upd(result, r, [resolved |-> TRUE, data |-> c.v])
                        /\ resumes' = Upd(resumes, r, resumes[r] + 1)
                        /\ UNCHANGED pending
                   ELSE /\ phase' = Upd(phase, r, "VALIDATING")
                        /\ pending' = Upd(pending, r,
                                          [rejected |-> TRUE,
                                           error |-> FieldError(built[r], name, c.msg),
                                           values |-> sub])
                        /\ UNCHANGED <<result, resumes>>

(* _parse_args applied to the arguments of the call. *)
ParseArgs(r) ==
    LET p == parse_args(call[r].kwargs, call[r].other_html_attrs)
    IN  /\ phase[r] = "NONE"
        /\ built' = Upd(built, r, [raised |-> NoError, item_spec |-> p.item_spec,
                                   valid_func |-> p.valid_func])
        /\ phase' = Upd(phase, r, "PARSED")
        /\ op' = Upd(op, r, [name |-> "parse_args", fresh |-> TRUE, at |-> phase[r]])
        /\ UNCHANGED <<call, form, first_form, pending, submitted, calls,
                       result, resumes, suspended, fatal>>

----------------------------------------------------------------------------
(* The calls an application makes *)

MaxFields == 2

Names == {"a", "b"}

RawVals == {<<"a", "b", "c">>, <<"1", "7">>}

Options == <<[shape |-> "scalar", v |-> "A"], [shape |-> "scalar", v |-> "B"]>>

(* A field unit of the given kind, built by the constructor of that kind. *)
field(kind, name, valid_func, required, other_html_attrs) ==
    CASE kind \in {TEXT, NUMBER, PASSWORD} ->
           input("label", kind, valid_func, name, required, other_html_attrs)
      [] kind = TEXTAREA ->
           textarea("label", valid_func, name, required, other_html_attrs)
      [] kind = SELECT ->
           select("label", Options, valid_func, name, required, other_html_attrs)
      [] kind = CHECKBOX ->
           checkbox("label", Options, valid_func, name, required, other_html_attrs)
      [] kind = RADIO ->
           radio("label", Options, valid_func, name, required, other_html_attrs)
      [] kind = FileType ->
           file_upload("label", name, other_html_attrs)

(* Plain fields, and required fields with the validator short. *)
ProtocolUnits ==
    {field(kind, name, c[1], c[2], EmptyDict) :
        kind \in {TEXT, NUMBER}, name \in Names,
        c \in {<<None, None>>, <<short, True>>}}

ProtocolCall(inputs, valid_func) ==
    [label |-> "g", inputs |-> inputs, valid_func |-> valid_func]

(* The submissions a browser can send for the form of request r. *)
FormNames(r) == {form[r].inputs[i]["name"] : i \in 1..Len(form[r].inputs)}

Submissions(r) ==
    IF form[r].emitted
    THEN UNION {[S -> RawVals] : S \in SUBSET FormNames(r)}
    ELSE {EmptyDict}

(* A submission that answers an earlier form: what it holds is never read. *)
StaleSubmissions(r) == {EmptyDict}

InitIdle ==
    /\ phase = [r \in Reqs |-> "NONE"]
    /\ built = [r \in Reqs |-> NoBuilt]
    /\ form = [r \in Reqs |-> NoForm]
    /\ first_form = [r \in Reqs |-> NoForm]
    /\ pending = [r \in Reqs |-> NoPending]
    /\ submitted = [r \in Reqs |-> NoSubmission]
    /\ calls = [r \in Reqs |-> <<>>]
    /\ result = [r \in Reqs |-> NoResult]
    /\ resumes = [r \in Reqs |-> 0]
    /\ suspended = [r \in Reqs |-> FALSE]
    /\ fatal = [r \in Reqs |-> NoError]
    /\ op = [r \in Reqs |-> NoOp]

Step(r) ==
    \/ InputGroup(r)
    \/ Emit(r)
    \/ \E sub \in Submissions(r) : Deliver(r, sub, TRUE)
    \/ \E sub \in StaleSubmissions(r) : Deliver(r, sub, FALSE)
    \/ Redisplay(r)

(* One request, every protocol call. *)
Init ==
    /\ \E n \in 1..MaxFields :
          \E inputs \in [1..n -> ProtocolUnits], valid_func \in {None, check_form} :
              call = [r \in Reqs |->
                        IF r = "r1" THEN ProtocolCall(inputs, valid_func)
                        ELSE NoCall]
    /\ InitIdle

Next == Step("r1")

Spec == Init /\ [][Next]_vars

(* Building and emitting a group: every list of field kinds, each field
   with or without an explicit auto_focus attribute. *)
MaxFocusFields == 3

FocusKinds == {TEXT, NUMBER, PASSWORD, SELECT, TEXTAREA, CHECKBOX}

FocusAttrs == {EmptyDict, [auto_focus |-> True], [auto_focus |-> False]}

FieldName(i) == <<"a", "b", "c", "d", "e">>[i]

(* The call input_group("g", [field(kinds[1], ...), ..., field(kinds[n], ...)]). *)
FocusCall(n, kinds, attrs) ==
    [label |-> "g",
     inputs |-> [i \in 1..n |-> field(kinds[i], FieldName(i), None, None, attrs[i])],
     valid_func |-> None]

InitFocus ==
    /\ \E n \in 1..MaxFocusFields :
          \E kinds \in [1..n -> FocusKinds], attrs \in [1..n -> FocusAttrs] :
              call = [r \in Reqs |->
                        IF r = "r1" THEN FocusCall(n, kinds, attrs) ELSE NoCall]
    /\ InitIdle

NextFocus == InputGroup("r1") \/ Emit("r1")

SpecFocus == InitFocus /\ [][NextFocus]_vars

(* Constructor calls: every constructor, the generic one with every kind
   string, the others with and without a type among their extra attributes,
   the choice constructors with every list of option declarations. *)
MaxOptions == 2

Str(s) == [py |-> "str", s |-> s]

Declarations ==
    {[shape |-> "mapping", m |-> [value |-> Str("a"), label |-> Str("A")]],
     [shape |-> "mapping", m |-> [value |-> Str("a"), label |-> Str("A"),
                                  disabled |-> True]],
     [shape |-> "mapping", m |-> [value |-> Str("a")]],
     [shape |-> "mapping", m |-> [label |-> Str("A")]],
     [shape |-> "list", l |-> <<Str("b")>>],
     [shape |-> "list", l |-> <<Str("b"), Str("B")>>],
     [shape |-> "list", l |-> <<Str("b"), Str("B"), True>>],
     [shape |-> "list", l |-> <<Str("b"), Str("B"), True, False>>],
     [shape |-> "list", l |-> <<Str("b"), Str("B"), True, False, Str("x")>>],
     [shape |-> "tuple", l |-> <<Str("c"), Str("C")>>],
     [shape |-> "tuple", l |-> <<Str("c")>>],
     [shape |-> "scalar", v |-> Str("d")]}

KindStrings == {TEXT, NUMBER, PASSWORD, TEXTAREA, CHECKBOX, RADIO, SELECT,
                "color", None}

TypeAttrs == {EmptyDict, [type |-> RADIO]}

ChoiceConstructors == {"select", "checkbox", "radio"}

ConstructorCall(fn, type, options, other_html_attrs) ==
    [fn |-> fn, label |-> "l", type |-> type, options |-> options,
     valid_func |-> None, name |-> "data", required |-> None,
     other_html_attrs |-> other_html_attrs]

InitBuild ==
    /\ \/ \E type \in KindStrings :
              call = [r \in Reqs |->
                        IF r = "r1"
                        THEN ConstructorCall("input", type, <<>>, EmptyDict)
                        ELSE NoCall]
       \/ \E fn \in {"textarea", "file_upload"}, attrs \in TypeAttrs :
              call = [r \in Reqs |->
                        IF r = "r1" THEN ConstructorCall(fn, None, <<>>, attrs)
                        ELSE NoCall]
       \/ \E n \in 0..MaxOptions :
              \E options \in [1..n -> Declarations],
                 fn \in ChoiceConstructors, attrs \in TypeAttrs :
                  call = [r \in Reqs |->
                            IF r = "r1"
                            THEN ConstructorCall(fn, None, options, attrs)
                            ELSE NoCall]
       \/ \E n \in 0..MaxOptions :
              \E buttons \in [1..n -> Declarations] :
                  call = [r \in Reqs |->
                            IF r = "r1"
                            THEN ConstructorCall("actions", None, buttons, EmptyDict)
                            ELSE NoCall]
    /\ InitIdle

NextBuild == SingleInput("r1") \/ Emit("r1")

SpecBuild == InitBuild /\ [][NextBuild]_vars

(* _parse_args on the locals() of a constructor: parameters unset, given a
   falsy value or given another value, with extra attributes that are new
   keys or keys of named parameters. *)
Zero == "0"

EmptyStr == ""

ExtraAttrs ==
    {EmptyDict,
     [maxlength |-> "5"],
     [required |-> True],
     [value |-> None],
     [value |-> "v", valid_func |-> short, maxlength |-> EmptyStr]}

InitParse ==
    /\ \E label \in {"l", EmptyStr}, value \in {None, Zero, EmptyStr},
          required \in {None, False, True}, placeholder \in {None, "p"},
          valid_func \in {None, short}, attrs \in ExtraAttrs :
              call = [r \in Reqs |->
                        IF r = "r1"
                        THEN [fn |-> "_parse_args",
                              kwargs |-> [label |-> label, value |-> value,
                                          required |-> required,
                                          placeholder |-> placeholder,
                                          valid_func |-> valid_func],
                              other_html_attrs |-> attrs]
                        ELSE NoCall]
    /\ InitIdle

NextParse == ParseArgs("r1")

SpecParse == InitParse /\ [][NextParse]_vars

(* A field awaited on its own: text, number and password fields, with and
   without the validator short.  Once the form is sent again the coroutine
   needs no event to suspend again, hence the fairness on Redisplay. *)
SingleKinds == {TEXT, NUMBER, PASSWORD}

SingleRawVals == RawVals \cup {<<"1", "2", "3">>}

InitSingle ==
    /\ \E type \in SingleKinds, valid_func \in {None, short} :
          call = [r \in Reqs |->
                    IF r = "r1"
                    THEN [ConstructorCall("input", type, <<>>, EmptyDict)
                            EXCEPT !.valid_func = valid_func]
                    ELSE NoCall]
    /\ InitIdle

NextSingle ==
    \/ SingleInput("r1")
    \/ Emit("r1")
    \/ \E raw \in SingleRawVals : DeliverSingle("r1", raw, TRUE)
    \/ \E raw \in SingleRawVals : DeliverSingle("r1", raw, FALSE)
    \/ Redisplay("r1")

SpecSingle ==
    InitSingle /\ [][NextSingle]_vars /\ WF_vars(Redisplay("r1"))

(* Groups of number and file fields named a, b, ..., with every form
   validator; a submission holds strings for a number field and file
   payloads for a file field.  The first field is of either kind, the second
   a file field, the later ones required number fields with a validator. *)
MaxKindFields == 2

FilePayloads ==
    {[filename |-> "f", dataurl |-> <<"h", ",", "Y", "Q", "=", "=">>],
     [filename |-> "f", dataurl |-> <<"h", ",", "Y", "W", "J", "j">>],
     [filename |-> "f", dataurl |-> <<"h", ",", "Y", "Q">>],
     [filename |-> "f", dataurl |-> <<"Y", "Q", "=", "=">>]}

KindUnits(i) ==
    IF i = 1
    THEN {field(NUMBER, FieldName(i), None, None, EmptyDict),
          field(NUMBER, FieldName(i), short, True, EmptyDict),
          field(FileType, FieldName(i), None, None, EmptyDict)}
    ELSE IF i = 2 THEN {field(FileType, FieldName(i), None, None, EmptyDict)}
    ELSE {field(NUMBER, FieldName(i), short, True, EmptyDict)}

FormValidators == {None, check_form, check_whole}

(* The raw values a browser sends for a field of the form. *)
RawFor(item_spec) ==
    IF item_spec["type"] = FileType THEN FilePayloads ELSE RawVals

RECURSIVE SubmissionsOver(_)
SubmissionsOver(inputs) ==
    IF inputs = <<>> THEN {EmptyDict}
    ELSE LET rest == SubmissionsOver(Tail(inputs))
         IN  rest \cup {DictSet(sub, Head(inputs)["name"], raw) :
                           sub \in rest, raw \in RawFor(Head(inputs))}

KindSubmissions(r) ==
    IF form[r].emitted THEN SubmissionsOver(form[r].inputs) ELSE {EmptyDict}

InitKinds ==
    /\ \E n \in 1..MaxKindFields :
          \E valid_func \in FormValidators :
              \E inputs \in {s \in [1..n -> UNION {KindUnits(i) : i \in 1..n}] :
                                \A i \in 1..n : s[i] \in KindUnits(i)} :
                  call = [r \in Reqs |->
                            IF r = "r1" THEN ProtocolCall(inputs, valid_func)
                            ELSE NoCall]
    /\ InitIdle

NextKinds ==
    \/ InputGroup("r1")
    \/ Emit("r1")
    \/ \E sub \in KindSubmissions("r1") : Deliver("r1", sub, TRUE)
    \/ \E sub \in StaleSubmissions("r1") : Deliver("r1", sub, FALSE)
    \/ Redisplay("r1")

SpecKinds == InitKinds /\ [][NextKinds]_vars

(* Two requests live at once, each a group of one field named a, their
   steps interleaved in every order. *)
TwoUnits ==
    {field(kind, "a", c[1], c[2], EmptyDict) :
        kind \in {TEXT, NUMBER}, c \in {<<None, None>>, <<short, True>>}}

InitTwo ==
    /\ \E u \in [Reqs -> TwoUnits] :
          call = [r \in Reqs |-> ProtocolCall(<<u[r]>>, None)]
    /\ InitIdle

NextTwo == \E r \in Reqs : Step(r)

SpecTwo == InitTwo /\ [][NextTwo]_vars

----------------------------------------------------------------------------
(* What the caller declared, read from the arguments of input_group.  A
   field of a submission is identified by its name: its kind, transform and
   validator are those of the last unit declared under the name, and it is
   required when a unit of that name is. *)

DeclNames(r) ==
    {call[r].inputs[i].item_spec["name"] : i \in 1..Len(call[r].inputs)}

DeclUnit(r, n) ==
    LET us == call[r].inputs
        i == CHOOSE j \in 1..Len(us) :
                 /\ us[j].item_spec["name"] = n
                 /\ \A k \in (j + 1)..Len(us) : us[k].item_spec["name"] # n
    IN  us[i]

DeclRequired(r, n) ==
    \E i \in 1..Len(call[r].inputs) :
        /\ call[r].inputs[i].item_spec["name"] = n
        /\ "required" \in DOMAIN call[r].inputs[i].item_spec
        /\ call[r].inputs[i].item_spec["required"] = True

RECURSIVE FirstOccurrences(_, _)
FirstOccurrences(inputs, seen) ==
    IF inputs = <<>> THEN <<>>
    ELSE LET n == Head(inputs).item_spec["name"]
         IN  IF n \in seen THEN FirstOccurrences(Tail(inputs), seen)
             ELSE <<n>> \o FirstOccurrences(Tail(inputs), seen \cup {n})

(* The declared names in declaration order, and the place of a name in it. *)
DeclOrder(r) == FirstOccurrences(call[r].inputs, {})

DeclPlace(r, n) == CHOOSE i \in 1..Len(DeclOrder(r)) : DeclOrder(r)[i] = n

IsDecimal(d) == Len(d) > 0 /\ \A i \in 1..Len(d) : d[i] \in Digits

OmitsRequired(r, n, sub) == n \notin DOMAIN sub /\ DeclRequired(r, n)

ConversionFails(r, n, sub) ==
    /\ n \in DOMAIN sub
    /\ DeclUnit(r, n).item_spec["type"] = NUMBER
    /\ ~IsDecimal(sub[n])

(* The typed value a field of the submission stands for. *)
DeclValue(r, n, sub) ==
    IF DeclUnit(r, n).item_spec["type"] = NUMBER
    THEN [t |-> "int", n |-> DecimalValue(sub[n])]
    ELSE [t |-> "str", s |-> sub[n]]

ValidatorFails(r, n, sub) ==
    /\ n \in DOMAIN sub
    /\ ~ConversionFails(r, n, sub)
    /\ DeclUnit(r, n).valid_func = short
    /\ TooLong(DeclValue(r, n, sub))

(* The fields of the submission whose check fails. *)
Failing(r, sub) ==
    {n \in DeclNames(r) :
        OmitsRequired(r, n, sub) \/ ConversionFails(r, n, sub)
            \/ ValidatorFails(r, n, sub)}

DeclData(r, sub) ==
    [n \in DeclNames(r) \cap DOMAIN sub |-> DeclValue(r, n, sub)]

(* The form validator the caller passed rejects the submission. *)
FormRejects(r, sub) ==
    /\ call[r].valid_func = check_form
    /\ "a" \in DOMAIN DeclData(r, sub)
    /\ TooLong(DeclData(r, sub)["a"])

(* The error annotation the browser is shown, or about to be shown. *)
Annotation(r) ==
    IF phase[r] = "VALIDATING" THEN pending[r].error ELSE form[r].error

Processed(r) == submitted[r].delivered

(* The last operation on r was the delivery of a submission that is stale or
   reached a request not awaiting one. *)
StaleDelivery(r) ==
    /\ op[r].name = "deliver"
    /\ (~op[r].fresh \/ op[r].at # "AWAITING_SUBMISSION")

----------------------------------------------------------------------------
(* C1: a request resumes its computation at most once; delivering a
   submission that is stale, or that reaches a request not awaiting one,
   raises StaleSubmissionError, resumes nothing and leaves the result, the
   phase and the form as they were. *)
C1_AtMostOneResume ==
    /\ [](\A r \in Reqs :
            /\ resumes[r] <= 1
            /\ StaleDelivery(r) => fatal[r] = StaleSubmissionError)
    /\ [][\A r \in Reqs :
            StaleDelivery(r)' =>
                /\ resumes'[r] = resumes[r]
                /\ result'[r] = result[r]
                /\ phase'[r] = phase[r]
                /\ form'[r] = form[r]]_vars

C1_Witness ==
    \E r \in Reqs :
        /\ StaleDelivery(r)
        /\ op[r].at = "RESOLVED"
        /\ resumes[r] = 1
        /\ fatal[r] = StaleSubmissionError

Lifecycle ==
    {<<"BUILT", "AWAITING_SUBMISSION">>,
     <<"AWAITING_SUBMISSION", "VALIDATING">>,
     <<"VALIDATING", "AWAITING_SUBMISSION">>,
     <<"AWAITING_SUBMISSION", "RESOLVED">>}

(* C2: a request starts in BUILT and moves only along BUILT ->
   AWAITING_SUBMISSION -> (VALIDATING -> AWAITING_SUBMISSION)* -> RESOLVED,
   RESOLVED is final, and the computation is suspended exactly in
   AWAITING_SUBMISSION. *)
C2_Lifecycle ==
    /\ [][\A r \in Reqs :
            /\ phase[r] = "NONE" => phase'[r] \in {"NONE", "BUILT", "FAILED"}
            /\ (phase[r] # "NONE" /\ phase'[r] # phase[r])
                   => <<phase[r], phase'[r]>> \in Lifecycle]_vars
    /\ [](\A r \in Reqs :
            /\ suspended[r] => phase[r] = "AWAITING_SUBMISSION"
            /\ phase[r] = "AWAITING_SUBMISSION" => suspended[r])

C2_Witness ==
    \E r \in Reqs :
        /\ phase[r] = "RESOLVED"
        /\ form[r].error # NoAnnotation
        /\ ~suspended[r]

(* C3: a submission in which exactly one field fails, by omitting a required
   field or by its validator rejecting the value, never resumes the
   computation; the form is shown again with that field flagged and with
   every other submitted value kept. *)
C3_FieldRejection ==
    \A r \in Reqs : \A n \in DeclNames(r) :
        (/\ Processed(r)
         /\ Failing(r, submitted[r].data) = {n}
         /\ ~ConversionFails(r, n, submitted[r].data))
        => /\ phase[r] \in {"VALIDATING", "AWAITING_SUBMISSION"}
           /\ resumes[r] = 0
           /\ Annotation(r).name = n
           /\ phase[r] = "AWAITING_SUBMISSION" =>
                \A m \in DOMAIN submitted[r].data \ {n} :
                    /\ m \in DOMAIN form[r].values
                    /\ form[r].values[m] = submitted[r].data[m]

C3_Witness ==
    \E r \in Reqs :
        /\ Processed(r)
        /\ phase[r] = "AWAITING_SUBMISSION"
        /\ Failing(r, submitted[r].data) = {"b"}
        /\ ValidatorFails(r, "b", submitted[r].data)
        /\ "a" \in DOMAIN submitted[r].data
        /\ form[r].error.name = "b"
        /\ form[r].values["a"] = submitted[r].data["a"]

(* C4: the field checks of one submission run in the declaration order of
   the inputs list, and when fields fail the error shown is that of the
   first failing field in declaration order. *)
C4_DeclarationOrder ==
    \A r \in Reqs :
        Processed(r) =>
            /\ \A i, j \in 1..Len(calls[r]) :
                 (i < j /\ calls[r][i].kind = "field" /\ calls[r][j].kind = "field")
                 => DeclPlace(r, calls[r][i].name) < DeclPlace(r, calls[r][j].name)
            /\ \A n \in Failing(r, submitted[r].data) :
                 /\ Annotation(r).name \in Failing(r, submitted[r].data)
                 /\ DeclPlace(r, Annotation(r).name) <= DeclPlace(r, n)

C4_Witness ==
    \E r \in Reqs :
        /\ Processed(r)
        /\ phase[r] = "AWAITING_SUBMISSION"
        /\ DeclOrder(r) = <<"b", "a">>
        /\ Failing(r, submitted[r].data) = {"a", "b"}
        /\ form[r].error.name = "b"

(* C5: the form validator is called only as the last call of a submission,
   after the checks of every submitted field have passed; it is not called
   on a submission in which a field fails. *)
C5_FormValidatorLast ==
    \A r \in Reqs :
        Processed(r) =>
            \A k \in 1..Len(calls[r]) :
                calls[r][k].kind = "form" =>
                    /\ k = Len(calls[r])
                    /\ \A i \in 1..(k - 1) :
                         calls[r][i].kind = "field" /\ calls[r][i].status # "failed"
                    /\ Failing(r, submitted[r].data) = {}
                    /\ \A n \in DeclNames(r) \cap DOMAIN submitted[r].data :
                         \E i \in 1..(k - 1) :
                             calls[r][i].name = n /\ calls[r][i].status = "passed"

C5_Witness ==
    \E r \in Reqs :
        /\ Processed(r)
        /\ Len(calls[r]) = 3
        /\ calls[r][1].status = "passed"
        /\ calls[r][2].status = "passed"
        /\ calls[r][3].kind = "form"

(* C6: a group is RESOLVED only by a submission in which no field fails and
   which the form validator accepts, and the result is the mapping from
   each submitted name to its transformed value. *)
C6_ResolvedResult ==
    \A r \in Reqs :
        phase[r] = "RESOLVED" =>
            /\ Processed(r)
            /\ Failing(r, submitted[r].data) = {}
            /\ ~FormRejects(r, submitted[r].data)
            /\ resumes[r] = 1
            /\ result[r].resolved
            /\ result[r].data = DeclData(r, submitted[r].data)

C6_Witness ==
    \E r \in Reqs :
        /\ phase[r] = "RESOLVED"
        /\ call[r].valid_func = check_form
        /\ DOMAIN result[r].data = {"a", "b"}
        /\ result[r].data["a"] = [t |-> "str", s |-> <<"1", "7">>]
        /\ result[r].data["b"] = [t |-> "int", n |-> 17]

(* C7: when every field check passes and the form validator returns a
   (name, message) pair, the computation is not resumed, the form is shown
   again with that pair as its error and every submitted value kept, and the
   request awaits the next submission. *)
C7_FormRejection ==
    \A r \in Reqs :
        (/\ Processed(r)
         /\ Failing(r, submitted[r].data) = {}
         /\ FormRejects(r, submitted[r].data))
        => /\ phase[r] \in {"VALIDATING", "AWAITING_SUBMISSION"}
           /\ resumes[r] = 0
           /\ Annotation(r) = [name |-> "a", msg |-> "too long"]
           /\ phase[r] = "AWAITING_SUBMISSION" =>
                /\ form[r].values = submitted[r].data
                /\ suspended[r]

C7_Witness ==
    \E r \in Reqs :
        /\ Processed(r)
        /\ phase[r] = "AWAITING_SUBMISSION"
        /\ Failing(r, submitted[r].data) = {}
        /\ FormRejects(r, submitted[r].data)
        /\ form[r].error = [name |-> "a", msg |-> "too long"]
        /\ "b" \in DOMAIN form[r].values
        /\ form[r].values["b"] = <<"1", "7">>

HasDuplicateNames(r) == Len(DeclOrder(r)) < Len(call[r].inputs)

(* C8: a group in which two units carry the same name fails with
   SpecificationError when it is built, and no form is ever emitted for
   it. *)
C8_DuplicateNamesRejected ==
    \A r \in Reqs :
        (HasDuplicateNames(r) /\ phase[r] # "NONE") =>
            /\ phase[r] = "FAILED"
            /\ fatal[r] = SpecificationError
            /\ ~form[r].emitted

DeclSpecs(r) == [i \in 1..Len(call[r].inputs) |-> call[r].inputs[i].item_spec]

PreFlagged(r) ==
    {i \in 1..Len(call[r].inputs) : "auto_focus" \in DOMAIN DeclSpecs(r)[i]}

TextLike(r) ==
    {i \in 1..Len(call[r].inputs) :
        DeclSpecs(r)[i]["type"] \in {"text", "number", "password", "select"}}

(* C9: when no unit carries an auto_focus attribute, the first field in
   declaration order whose type is text, number, password or select gets
   auto_focus = True and nothing else changes (nothing at all when no field
   qualifies); when a unit carries the attribute, every field specification
   is emitted as the caller built it. *)
C9_AutoFocusDefault ==
    \A r \in Reqs :
        phase[r] \in {"BUILT", "AWAITING_SUBMISSION"} =>
            LET out == built[r].spec.inputs
            IN  /\ Len(out) = Len(call[r].inputs)
                /\ form[r].emitted => form[r].inputs = out
                /\ (PreFlagged(r) # {} \/ TextLike(r) = {}) => out = DeclSpecs(r)
                /\ (PreFlagged(r) = {} /\ TextLike(r) # {}) =>
                     \A i \in 1..Len(out) :
                         IF i \in TextLike(r) /\ \A j \in TextLike(r) : i <= j
                         THEN out[i] = DictSet(DeclSpecs(r)[i], "auto_focus", True)
                         ELSE out[i] = DeclSpecs(r)[i]

C9_Witness ==
    \E r \in Reqs :
        /\ phase[r] = "AWAITING_SUBMISSION"
        /\ Len(call[r].inputs) = 3
        /\ PreFlagged(r) = {}
        /\ DeclSpecs(r)[1]["type"] = CHECKBOX
        /\ DeclSpecs(r)[2]["type"] = NUMBER
        /\ DeclSpecs(r)[3]["type"] = TEXT
        /\ "auto_focus" \notin DOMAIN form[r].inputs[1]
        /\ "auto_focus" \in DOMAIN form[r].inputs[2]
        /\ form[r].inputs[2]["auto_focus"] = True
        /\ "auto_focus" \notin DOMAIN form[r].inputs[3]

Focused(inputs) ==
    {i \in 1..Len(inputs) :
        "auto_focus" \in DOMAIN inputs[i] /\ inputs[i]["auto_focus"] = True}

(* C10: in every emitted form at most one field has auto_focus = True. *)
C10_AtMostOneAutoFocus ==
    \A r \in Reqs :
        form[r].emitted => Cardinality(Focused(form[r].inputs)) <= 1

----------------------------------------------------------------------------
(* What a constructor call declared, read from its arguments. *)

IsChoiceCall(r) == call[r].fn \in ChoiceConstructors \cup {"actions"}

(* The field specification of a request of one field. *)
ItemSpec(r) == built[r].spec.inputs[1]

Normalized(r) ==
    IF call[r].fn = "actions" THEN ItemSpec(r)["buttons"]
    ELSE ItemSpec(r)["options"]

IsPositional(d) == d.shape \in {"list", "tuple"}

WellFormed(d, fn) ==
    CASE d.shape = "mapping" -> {"value", "label"} \subseteq DOMAIN d.m
      [] IsPositional(d) ->
           Len(d.l) >= 2 /\ Len(d.l) <= (IF fn = "actions" THEN 3 ELSE 4)
      [] OTHER -> TRUE

(* The record a well-formed declaration stands for. *)
ExpectedRecord(d, fn) ==
    CASE d.shape = "mapping" -> d.m
      [] IsPositional(d) ->
           LET two == [value |-> d.l[1], label |-> d.l[2]]
           IN  IF Len(d.l) = 2 THEN two
               ELSE IF fn = "actions" THEN DictSet(two, "disabled", d.l[3])
               ELSE IF Len(d.l) = 3 THEN DictSet(two, "selected", d.l[3])
               ELSE DictSet(DictSet(two, "selected", d.l[3]), "disabled", d.l[4])
      [] OTHER -> [value |-> d.v, label |-> d.v]

(* C11: the normalizer maps each declaration, in order, to one record: a
   mapping with value and label is kept, a positional sequence of 2 to 4
   elements (2 to 3 for buttons) becomes the record of its elements, a
   scalar becomes value = label = the scalar; a mapping without value or
   label and a positional sequence of another length raise
   SpecificationError. *)
C11_OptionNormalizer ==
    \A r \in Reqs :
        (phase[r] # "NONE" /\ IsChoiceCall(r)) =>
            LET ds == call[r].options
            IN  IF \A i \in 1..Len(ds) : WellFormed(ds[i], call[r].fn)
                THEN /\ phase[r] # "FAILED"
                     /\ Normalized(r) =
                          [i \in 1..Len(ds) |-> ExpectedRecord(ds[i], call[r].fn)]
                ELSE /\ phase[r] = "FAILED"
                     /\ fatal[r] = SpecificationError

(* The same statement for the declarations that are no tuples. *)
C11_WithoutTuples ==
    \A r \in Reqs :
        (/\ phase[r] # "NONE"
         /\ IsChoiceCall(r)
         /\ \A i \in 1..Len(call[r].options) : call[r].options[i].shape # "tuple")
        => LET ds == call[r].options
           IN  IF \A i \in 1..Len(ds) : WellFormed(ds[i], call[r].fn)
               THEN /\ phase[r] # "FAILED"
                    /\ Normalized(r) =
                         [i \in 1..Len(ds) |-> ExpectedRecord(ds[i], call[r].fn)]
               ELSE /\ phase[r] = "FAILED"
                    /\ fatal[r] = SpecificationError

(* The records of a normalized list, declared again as mappings. *)
AsDeclarations(opts) ==
    [i \in 1..Len(opts) |-> [shape |-> "mapping", m |-> opts[i]]]

Renormalized(r) ==
    IF call[r].fn = "actions"
    THEN parse_action_buttons(AsDeclarations(Normalized(r)))
    ELSE parse_select_options(AsDeclarations(Normalized(r)))

(* C12: normalizing the output of the normalizer again raises nothing and
   yields the same sequence of records, for every list of option or button
   declarations the normalizer accepts. *)
C12_NormalizeIdempotent ==
    \A r \in Reqs :
        (phase[r] \notin {"NONE", "FAILED"} /\ IsChoiceCall(r)) =>
            /\ Renormalized(r).raised = NoError
            /\ Renormalized(r).opts = Normalized(r)

C12_Witness ==
    \E r \in Reqs :
        /\ phase[r] = "BUILT"
        /\ IsChoiceCall(r)
        /\ call[r].fn = "select"
        /\ Len(call[r].options) = 2
        /\ call[r].options[1].shape = "list"
        /\ Len(call[r].options[1].l) = 4
        /\ call[r].options[2].shape = "mapping"
        /\ Renormalized(r).opts = Normalized(r)
        /\ Normalized(r)[1]["selected"] = True

NumberFields(r) ==
    {n \in DeclNames(r) : DeclUnit(r, n).item_spec["type"] = NUMBER}

(* The fresh delivery of a submission to a request that awaits one. *)
FreshDelivery(r) ==
    /\ phase[r] = "AWAITING_SUBMISSION"
    /\ op'[r] = [name |-> "deliver", fresh |-> TRUE, at |-> "AWAITING_SUBMISSION"]

(* C13: a submission whose value for a number field is no numeric string
   is no fatal failure and resumes nothing: the form is shown again with an
   error, attached to that field when no earlier field fails; a later
   submission in which every field passes resolves the request, a number
   field holding the parsed integer. *)
C13_NumberField ==
    /\ [](\A r \in Reqs :
            /\ \A n \in NumberFields(r) :
                 (Processed(r) /\ ConversionFails(r, n, submitted[r].data)) =>
                     /\ phase[r] \in {"VALIDATING", "AWAITING_SUBMISSION"}
                     /\ resumes[r] = 0
                     /\ ~result[r].resolved
                     /\ ~StaleDelivery(r) => fatal[r] = NoError
                     /\ Annotation(r).name \in Failing(r, submitted[r].data)
                     /\ (\A m \in Failing(r, submitted[r].data) :
                            DeclPlace(r, n) <= DeclPlace(r, m))
                        => Annotation(r).name = n
            /\ phase[r] = "RESOLVED" =>
                 \A n \in NumberFields(r) \cap DOMAIN submitted[r].data :
                     /\ IsDecimal(submitted[r].data[n])
                     /\ result[r].data[n] =
                          [t |-> "int", n |-> DecimalValue(submitted[r].data[n])])
    /\ [][\A r \in Reqs :
            (/\ FreshDelivery(r)
             /\ form[r].error # NoAnnotation
             /\ Failing(r, submitted'[r].data) = {}
             /\ ~FormRejects(r, submitted'[r].data))
            => /\ phase'[r] = "RESOLVED"
               /\ resumes'[r] = 1
               /\ fatal'[r] = NoError]_vars

C13_Witness ==
    \E r \in Reqs :
        /\ phase[r] = "RESOLVED"
        /\ Len(call[r].inputs) = 1
        /\ NumberFields(r) = {"a"}
        /\ form[r].error.name = "a"
        /\ form[r].values = [k \in {"a"} |-> <<"a", "b", "c">>]
        /\ submitted[r].data = [k \in {"a"} |-> <<"1", "7">>]
        /\ result[r].data = [k \in {"a"} |-> [t |-> "int", n |-> 17]]

(* C14: the only failures that reach the caller are SpecificationError and
   StaleSubmissionError: a submission delivered to a request that awaits one
   is never fatal, whatever conversion, decoding, field or form validation
   fails; it leads to RESOLVED or to the form shown again with an error
   annotation. *)
C14_OnlyTwoFatalErrors ==
    /\ [](\A r \in Reqs :
            /\ fatal[r] \in {NoError, SpecificationError, StaleSubmissionError}
            /\ fatal[r] = SpecificationError => phase[r] = "FAILED"
            /\ fatal[r] = StaleSubmissionError => StaleDelivery(r))
    /\ [][\A r \in Reqs :
            /\ FreshDelivery(r) =>
                 /\ fatal'[r] = NoError
                 /\ \/ phase'[r] = "RESOLVED"
                    \/ /\ phase'[r] = "VALIDATING"
                       /\ pending'[r].rejected
                       /\ pending'[r].error # NoAnnotation
            /\ (phase[r] = "VALIDATING" /\ phase'[r] # "VALIDATING") =>
                 /\ phase'[r] = "AWAITING_SUBMISSION"
                 /\ fatal'[r] = NoError
                 /\ form'[r].error = pending[r].error
                 /\ form'[r].error # NoAnnotation]_vars

C14_Witness ==
    \E r \in Reqs :
        /\ phase[r] = "AWAITING_SUBMISSION"
        /\ fatal[r] = NoError
        /\ Len(form[r].inputs) = 2
        /\ form[r].inputs[2]["type"] = FileType
        /\ form[r].error = [name |-> "b", msg |-> "binascii.Error"]
        /\ "a" \in DOMAIN form[r].values
        /\ form[r].values["b"].dataurl = <<"h", ",", "Y", "Q">>

(* Everything a request owns: its phase, its field specifications,
   transforms and validators, its form with error annotation and preserved
   values, and its result. *)
Own(r) ==
    <<phase[r], built[r], form[r], first_form[r], pending[r], submitted[r],
      calls[r], result[r], resumes[r], suspended[r]>>

(* C15: with several requests live at once, under every interleaving, a
   step on one request, the delivery of a submission in particular, changes
   nothing that another request owns. *)
C15_Isolation ==
    [][\A r \in Reqs :
         (Own(r)' # Own(r) \/ op'[r] # op[r]) =>
             \A q \in Reqs \ {r} : Own(q)' = Own(q) /\ fatal'[q] = fatal[q]]_vars

C15_Witness ==
    /\ phase["r1"] = "AWAITING_SUBMISSION"
    /\ form["r1"].error = [name |-> "a", msg |-> "ValueError"]
    /\ form["r1"].values = [k \in {"a"} |-> <<"a", "b", "c">>]
    /\ phase["r2"] = "AWAITING_SUBMISSION"
    /\ form["r2"] = first_form["r2"]
    /\ form["r2"].inputs[1]["type"] = TEXT
    /\ built["r2"].preprocess_funcs # built["r1"].preprocess_funcs

(* What a form shows of its fields: per field, in order, the name, the kind
   and the auto-focus flag. *)
Shape(f) ==
    [i \in 1..Len(f.inputs) |->
        [name |-> f.inputs[i]["name"], type |-> f.inputs[i]["type"],
         auto_focus |-> DictGet(f.inputs[i], "auto_focus", None)]]

(* C16: every form a request emits after a rejected submission has the
   label of the first emission and the same fields in the same order, with
   the same names, kinds and auto-focus flags; only the error annotation and
   the preserved values differ from the first emission, which has
   neither. *)
C16_SameFormReemitted ==
    /\ [](\A r \in Reqs :
            form[r].emitted =>
                /\ first_form[r].emitted
                /\ first_form[r].error = NoAnnotation
                /\ first_form[r].values = EmptyDict
                /\ form[r].label = first_form[r].label
                /\ Shape(form[r]) = Shape(first_form[r])
                /\ form[r].inputs = first_form[r].inputs
                /\ [form[r] EXCEPT !.error = NoAnnotation, !.values = EmptyDict]
                      = first_form[r])
    /\ [][\A r \in Reqs :
            first_form[r].emitted => first_form'[r] = first_form[r]]_vars

C16_Witness ==
    \E r \in Reqs :
        /\ phase[r] = "AWAITING_SUBMISSION"
        /\ form[r].error = [name |-> "b", msg |-> "required"]
        /\ form[r].values # EmptyDict
        /\ Len(form[r].inputs) = 2
        /\ Shape(form[r]) = Shape(first_form[r])
        /\ Shape(form[r])[1].auto_focus = True
        /\ form[r] # first_form[r]

(* A field awaited on its own: the value a raw string stands for, and
   whether the transform or the validator of the call rejects it. *)
SingleValue(r, raw) ==
    IF call[r].type = NUMBER THEN [t |-> "int", n |-> DecimalValue(raw)]
    ELSE [t |-> "str", s |-> raw]

SingleFails(r, raw) ==
    \/ call[r].type = NUMBER /\ ~IsDecimal(raw)
    \/ /\ ~(call[r].type = NUMBER /\ ~IsDecimal(raw))
       /\ call[r].valid_func = short
       /\ TooLong(SingleValue(r, raw))

PassingDelivered(r) ==
    Processed(r) /\ ~SingleFails(r, submitted[r].data)

ResolvedWith(r) ==
    /\ phase[r] = "RESOLVED"
    /\ resumes[r] = 1
    /\ result[r].resolved
    /\ result[r].data = SingleValue(r, submitted[r].data)

(* C17: a field awaited on its own suspends again after every submission
   that fails its transform or its validator, and once a submission that
   passes both is delivered the request is RESOLVED for good, the
   computation resumed once with the transformed value of that first passing
   submission. *)
C17_SingleFieldRetry ==
    /\ [][\A r \in Reqs :
            /\ FreshDelivery(r) =>
                 IF SingleFails(r, submitted'[r].data)
                 THEN /\ phase'[r] = "VALIDATING"
                      /\ resumes'[r] = 0
                      /\ pending'[r].error.name = call[r].name
                 ELSE ResolvedWith(r)'
            /\ phase[r] = "RESOLVED" =>
                 phase'[r] = "RESOLVED" /\ result'[r] = result[r]]_vars
    /\ \A r \in Reqs :
         [](phase[r] = "VALIDATING" =>
              <>(/\ phase[r] = "AWAITING_SUBMISSION"
                 /\ suspended[r]
                 /\ form[r].error.name = call[r].name
                 /\ resumes[r] = 0))
    /\ \A r \in Reqs : <>PassingDelivered(r) => <>[]ResolvedWith(r)

C17_Witness ==
    \E r \in Reqs :
        /\ phase[r] = "RESOLVED"
        /\ call[r].type = NUMBER
        /\ call[r].valid_func = short
        /\ form[r].error = [name |-> "data", msg |-> "too long"]
        /\ form[r].values = [k \in {"data"} |-> <<"1", "2", "3">>]
        /\ result[r].data = [t |-> "int", n |-> 17]
        /\ resumes[r] = 1

(* The named parameters and the extra attributes of a call of _parse_args,
   and what it returned. *)
Named(r) == call[r].kwargs

Extra(r) == call[r].other_html_attrs

ParsedSpec(r) == built[r].item_spec

(* The validator the caller gave, if any: an extra attribute of that key
   wins over the named parameter. *)
GivenValidator(r) ==
    IF "valid_func" \in DOMAIN Extra(r) THEN Extra(r)["valid_func"]
    ELSE Named(r)["valid_func"]

(* C18: the specification holds no key of a parameter left unset, holds
   every parameter given explicitly, falsy values included, holds every
   extra attribute, and holds the extra attribute's value for a key that is
   both; the validator is not in the specification and is always-valid when
   none was given. *)
C18_ParseArgs ==
    \A r \in Reqs :
        phase[r] = "PARSED" =>
            /\ \A k \in DOMAIN Named(r) \ (DOMAIN Extra(r) \cup {"valid_func"}) :
                 IF Named(r)[k] = None THEN k \notin DOMAIN ParsedSpec(r)
                 ELSE k \in DOMAIN ParsedSpec(r) /\ ParsedSpec(r)[k] = Named(r)[k]
            /\ \A k \in DOMAIN Extra(r) \ {"valid_func"} :
                 k \in DOMAIN ParsedSpec(r) /\ ParsedSpec(r)[k] = Extra(r)[k]
            /\ DOMAIN ParsedSpec(r) \subseteq
                 (DOMAIN Named(r) \cup DOMAIN Extra(r)) \ {"valid_func"}
            /\ built[r].valid_func =
                 IF GivenValidator(r) = None THEN always_valid
                 ELSE GivenValidator(r)

C18_Witness ==
    \E r \in Reqs :
        /\ phase[r] = "PARSED"
        /\ Named(r)["label"] = EmptyStr
        /\ Named(r)["value"] = Zero
        /\ Named(r)["required"] = False
        /\ Named(r)["placeholder"] = None
        /\ Named(r)["valid_func"] = None
        /\ Extra(r) = [required |-> True]
        /\ ParsedSpec(r) = [label |-> EmptyStr, value |-> Zero, required |-> True]
        /\ built[r].valid_func = always_valid

(* The kind a constructor other than the generic one gives its field. *)
OwnKind(fn) ==
    CASE fn = "textarea" -> TEXTAREA
      [] fn = "select" -> SELECT
      [] fn = "checkbox" -> CHECKBOX
      [] fn = "radio" -> RADIO
      [] fn = "actions" -> ActionsType
      [] fn = "file_upload" -> FileType

(* The request has a unit of its own to suspend on. *)
HasUnit(r) == "spec" \in DOMAIN built[r]

(* C19: a call of the generic text constructor with a kind outside its
   supported set fails with SpecificationError as soon as it is evaluated,
   and then there is no unit, no form and no suspension; with a supported
   kind it builds a field of that kind; every other constructor that builds
   a field gives it its own kind, whatever type its extra attributes name. *)
C19_KindFixedAtConstruction ==
    \A r \in Reqs :
        (call[r] # NoCall /\ phase[r] # "NONE") =>
            IF call[r].fn = "input"
            THEN IF call[r].type \in allowed_type
                 THEN /\ phase[r] # "FAILED"
                      /\ HasUnit(r)
                      /\ ItemSpec(r)["type"] = call[r].type
                 ELSE /\ phase[r] = "FAILED"
                      /\ fatal[r] = SpecificationError
                      /\ ~HasUnit(r)
                      /\ form[r] = NoForm
                      /\ first_form[r] = NoForm
                      /\ ~suspended[r]
            ELSE HasUnit(r) => ItemSpec(r)["type"] = OwnKind(call[r].fn)

C19_Witness ==
    \E r \in Reqs :
        /\ call[r] # NoCall
        /\ call[r].fn = "input"
        /\ call[r].type = CHECKBOX
        /\ phase[r] = "FAILED"
        /\ fatal[r] = SpecificationError
        /\ ~HasUnit(r)

(* The form of request r has been sent again with an error annotation. *)
Redisplayed(r) == form[r].emitted /\ form[r].error # NoAnnotation

(* The field checks of the last submission that failed, in the order they
   were made. *)
FailedFields(r) ==
    {i \in 1..Len(calls[r]) :
        calls[r][i].kind = "field" /\ calls[r][i].status = "failed"}

(* The transformed values of the fields of the last submission whose
   checks passed. *)
Transformed(r) ==
    [n \in {m \in FormNames(r) :
               CheckField(built[r], m, submitted[r].data).status = "passed"} |->
        CheckField(built[r], n, submitted[r].data).v]

(* C20 as stated: in every form sent again, the error annotation names a
   field of that form, whether it comes from a field check or from the pair
   the form validator returned. *)
C20_AnnotationNamesField ==
    \A r \in Reqs : Redisplayed(r) => form[r].error.name \in FormNames(r)

(* C20 amended: the annotation of a rejected submission names the first
   field whose check failed, which is a field of the form; when every field
   check passed it is the pair the form validator returned, whose name is
   whatever the validator chose; the form sent again carries the annotation
   of the rejected submission and no other. *)
C20_AnnotationFromChecks ==
    /\ [](\A r \in Reqs :
            phase[r] = "VALIDATING" =>
                IF FailedFields(r) # {}
                THEN LET i == CHOOSE j \in FailedFields(r) :
                                  \A k \in FailedFields(r) : j <= k
                     IN  /\ pending[r].error.name = calls[r][i].name
                         /\ pending[r].error.name \in FormNames(r)
                ELSE /\ call[r].valid_func # None
                     /\ pending[r].error =
                            ApplyFormValidFunc(call[r].valid_func, Transformed(r))
                     /\ pending[r].error # NoAnnotation)
    /\ [][\A r \in Reqs :
            (form[r].emitted /\ form'[r].error # form[r].error) =>
                /\ phase[r] = "VALIDATING"
                /\ form'[r].error = pending[r].error]_vars

C20_Witness ==
    \E r \in Reqs :
        /\ phase[r] = "AWAITING_SUBMISSION"
        /\ Len(form[r].inputs) = 2
        /\ call[r].valid_func = check_form
        /\ FailedFields(r) = {}
        /\ form[r].error = [name |-> "a", msg |-> "too long"]
        /\ "a" \in FormNames(r)
====
